---- MODULE Spec2Model ----
(***************************************************************************)
(* Trajectory-planning engine of spaceship-trajectory: Vec2, FlightPath,   *)
(* BreakFlightPath, LineFlightPath, combinePath, CompositePath,            *)
(* DirectedInitialVFlightPath and InitialVFlightPath.                      *)
(*                                                                         *)
(* Numbers.  The program computes in floating point; here a number is a    *)
(* fixed-point value, the integer n standing for n / Scale, and every      *)
(* product, quotient and square root rounds its exact result once to the   *)
(* nearest representable value, as a floating-point operation does.  Sums  *)
(* and differences are exact.  Operations are applied in the order the     *)
(* source applies them.  An identity that the source's arithmetic gives    *)
(* exactly is stated with =; an identity that holds only up to rounding    *)
(* is stated with Close / CloseNum (within Eps).                           *)
(*                                                                         *)
(* Specifications.  Spec: a path is constructed and rocketPosition and     *)
(* rocketVelocity are queried.  SpecCache: on a constructed path,          *)
(* getCachedPoints and getStateAtTime are called in any order.             *)
(* SpecValues: the Vec2 constructor and methods and the flight path        *)
(* constructors are called with arbitrary JavaScript values.               *)
(***************************************************************************)
EXTENDS Integers, Sequences, FiniteSets, TLC

\* ------------------------------------------------------------------ bounds
FracBits == 10       \* fractional bits of a number
MaxCoord == 2        \* end-point coordinates range over -MaxCoord..MaxCoord
MaxAcc == 2          \* a_max ranges over MinAcc..MaxAcc
MaxSpeed == 2        \* velocity components range over -MaxSpeed..MaxSpeed
TimeSteps == 4       \* queries at k/TimeSteps of t_max
CacheCoord == 1      \* coordinates and speeds of the paths whose cache is used

Scale == 2 ^ FracBits
One == Scale
Half == Scale \div 2
Eps == Scale \div 32
MinAcc == 0 - 1

\* -------------------------------------------------------------- arithmetic
Abs(n) == IF n < 0 THEN 0 - n ELSE n

Sgn(n) == IF n < 0 THEN 0 - 1 ELSE IF n > 0 THEN 1 ELSE 0

\* n / d rounded to the nearest integer, n >= 0, d > 0
RoundDiv(n, d) == (2 * n + d) \div (2 * d)

\* a * b on numbers (computed in two parts to stay within machine integers)
Mul(a, b) ==
    LET q == Abs(a) \div Scale
        r == Abs(a) % Scale
    IN  Sgn(a) * Sgn(b) * (q * Abs(b) + RoundDiv(r * Abs(b), Scale))

\* a / b on numbers, b # 0
Div(a, b) == Sgn(a) * Sgn(b) * RoundDiv(Abs(a) * Scale, Abs(b))

RECURSIVE ISqrtBetween(_, _, _)
\* the r with r*r <= n < (r+1)*(r+1), given lo*lo <= n < hi*hi
ISqrtBetween(n, lo, hi) ==
    IF hi - lo <= 1 THEN lo
    ELSE LET mid == (lo + hi) \div 2
         IN  IF mid * mid <= n THEN ISqrtBetween(n, mid, hi)
                               ELSE ISqrtBetween(n, lo, mid)

\* Math.sqrt on numbers, a >= 0
Sqrt(a) ==
    LET n == a * Scale
        r == ISqrtBetween(n, 0, 46341)
    IN  IF n - r * r > r THEN r + 1 ELSE r

CloseNum(a, b) == Abs(a - b) <= Eps

\* -------------------------------------------------------------------- Vec2
Vec(x, y) == [x |-> x, y |-> y]

Zero == Vec(0, 0)

Add(u, v) == Vec(u.x + v.x, u.y + v.y)

Sub(u, v) == Vec(u.x - v.x, u.y - v.y)

VMul(u, s) == Vec(Mul(u.x, s), Mul(u.y, s))

VDiv(u, s) == Vec(Div(u.x, s), Div(u.y, s))

Length(u) == Sqrt(Mul(u.x, u.x) + Mul(u.y, u.y))

NormOrZero(u) == LET l == Length(u) IN IF l = 0 THEN Zero ELSE VDiv(u, l)

Dot(u, v) == Mul(u.x, v.x) + Mul(u.y, v.y)

Close(u, v) == CloseNum(u.x, v.x) /\ CloseNum(u.y, v.y)

\* ------------------------------------------------- results of a call
Ok(v) == [ok |-> TRUE, v |-> v]

Throw(msg) == [ok |-> FALSE, err |-> msg]

NegativeTime == "Time cannot be negative"

BadAMax == "a_max must be positive number"

\* --------------------------------------------------------- BreakFlightPath
BreakTimeToBreak(a_max, initial_v) == Div(Length(initial_v), a_max)

\* a slip: the factor 0.5 is lost
BreakDistToBreakNoHalf(a_max, time_to_break) ==
    Mul(Mul(a_max, time_to_break), time_to_break)

BreakDistToBreak(a_max, time_to_break) ==
    Mul(Mul(Mul(Half, a_max), time_to_break), time_to_break)

BreakFlightPath(p_start, a_max, initial_v) ==
    IF a_max <= 0 THEN Throw(BadAMax)
    ELSE LET time_to_break == BreakTimeToBreak(a_max, initial_v)
             dist_to_break == BreakDistToBreak(a_max, time_to_break)
             norm == NormOrZero(initial_v)
         IN  Ok([kind |-> "Break",
                 time_to_break |-> time_to_break,
                 dist_to_break |-> dist_to_break,
                 norm |-> norm,
                 p_end |-> Add(p_start, VMul(norm, dist_to_break)),
                 t_max |-> time_to_break,
                 a_max |-> a_max])

getEndPosition(p) == p.p_end

getTimeToBreak(p) == p.time_to_break

getDistanceToBreak(p) == p.dist_to_break

BreakPosition(p, t) ==
    IF t < 0 THEN Throw(NegativeTime)
    ELSE IF t <= p.time_to_break
         THEN LET remaining == p.time_to_break - t
              IN  Ok(Sub(p.p_end,
                         VMul(p.norm, Mul(Mul(Mul(Half, p.a_max), remaining), remaining))))
         ELSE Ok(p.p_end)

BreakVelocity(p, t) ==
    IF t < 0 THEN Throw(NegativeTime)
    ELSE IF t <= p.time_to_break
         THEN LET remaining == p.time_to_break - t
              IN  Ok(VMul(p.norm, Mul(p.a_max, remaining)))
         ELSE Ok(Zero)

\* ---------------------------------------------------------- LineFlightPath
\* a slip: the factor 2 is lost
LineTMaxNoDouble(distance, a_max) == Sqrt(Div(distance, a_max))

LineTMax(distance, a_max) == Mul(2 * One, Sqrt(Div(distance, a_max)))

\* a slip: a non-positive a_max is replaced by 1 instead of being rejected
LineFlightPathCorrected(p_start, p_end, a_max) ==
    LET dd == Sub(p_end, p_start)
        distance == Length(dd)
        a == IF a_max <= 0 THEN One ELSE a_max
    IN  Ok([kind |-> "Line",
            p_start |-> p_start,
            p_end |-> p_end,
            a_max |-> a,
            distance |-> distance,
            direction |-> IF distance = 0 THEN Zero ELSE VDiv(dd, distance),
            t_max |-> IF distance = 0 THEN 0 ELSE LineTMax(distance, a)])

LineFlightPath(p_start, p_end, a_max) ==
    IF a_max <= 0 THEN Throw(BadAMax)
    ELSE LET dd == Sub(p_end, p_start)
             distance == Length(dd)
         IN  Ok([kind |-> "Line",
                 p_start |-> p_start,
                 p_end |-> p_end,
                 a_max |-> a_max,
                 distance |-> distance,
                 direction |-> IF distance = 0 THEN Zero ELSE VDiv(dd, distance),
                 t_max |-> IF distance = 0 THEN 0 ELSE LineTMax(distance, a_max)])

\* this.t_max / 2
HalfTMax(p) == Div(p.t_max, 2 * One)

\* the acceleration-phase formulas
LineAccelPosition(p, t) ==
    Add(p.p_start, VMul(p.direction, Mul(Mul(Mul(Half, p.a_max), t), t)))

LineAccelVelocity(p, t) == VMul(p.direction, Mul(p.a_max, t))

\* the deceleration-phase formulas
\* a slip: 0.5 where the source has -0.5
LineDecelPositionPlus(p, t) ==
    LET t_decel == p.t_max - t
    IN  Add(p.p_end, VMul(p.direction, Mul(Mul(Mul(Half, p.a_max), t_decel), t_decel)))

LineDecelPosition(p, t) ==
    LET t_decel == p.t_max - t
    IN  Add(p.p_end, VMul(p.direction, Mul(Mul(Mul(0 - Half, p.a_max), t_decel), t_decel)))

LineDecelVelocity(p, t) ==
    LET t_decel == t - HalfTMax(p)
    IN  VMul(p.direction, Mul(p.a_max, HalfTMax(p) - t_decel))

\* a slip: the zero-distance return comes before the check of t
LinePositionZeroFirst(p, t) ==
    IF p.distance = 0 THEN Ok(p.p_start)
    ELSE IF t < 0 THEN Throw(NegativeTime)
    ELSE IF t <= HalfTMax(p) THEN Ok(LineAccelPosition(p, t))
    ELSE IF t <= p.t_max THEN Ok(LineDecelPosition(p, t))
    ELSE Ok(p.p_end)

LinePosition(p, t) ==
    IF t < 0 THEN Throw(NegativeTime)
    ELSE IF p.distance = 0 THEN Ok(p.p_start)
    ELSE IF t <= HalfTMax(p) THEN Ok(LineAccelPosition(p, t))
    ELSE IF t <= p.t_max THEN Ok(LineDecelPosition(p, t))
    ELSE Ok(p.p_end)

LineVelocity(p, t) ==
    IF t < 0 THEN Throw(NegativeTime)
    ELSE IF p.distance = 0 THEN Ok(Zero)
    ELSE IF t <= HalfTMax(p) THEN Ok(LineAccelVelocity(p, t))
    ELSE IF t <= p.t_max THEN Ok(LineDecelVelocity(p, t))
    ELSE Ok(Zero)

\* ------------------------------------------------- dispatch on the subclass
RECURSIVE rocketPosition(_, _)
RECURSIVE rocketVelocity(_, _)

getMaxTime(p) == p.t_max

\* ------------------------------------------------------------- combinePath
combinePath(path1, path2) ==
    [kind |-> "Combined",
     path1 |-> path1,
     path2 |-> path2,
     t_max |-> getMaxTime(path1) + getMaxTime(path2)]

\* a slip: the second path is asked at t, not at t - path1.getMaxTime()
CombinedPositionNoShift(p, t) ==
    IF t < 0 THEN Throw(NegativeTime)
    ELSE IF t <= getMaxTime(p.path1) THEN rocketPosition(p.path1, t)
    ELSE rocketPosition(p.path2, t)

CombinedPosition(p, t) ==
    IF t < 0 THEN Throw(NegativeTime)
    ELSE IF t <= getMaxTime(p.path1) THEN rocketPosition(p.path1, t)
    ELSE rocketPosition(p.path2, t - getMaxTime(p.path1))

CombinedVelocity(p, t) ==
    IF t < 0 THEN Throw(NegativeTime)
    ELSE IF t <= getMaxTime(p.path1) THEN rocketVelocity(p.path1, t)
    ELSE rocketVelocity(p.path2, t - getMaxTime(p.path1))

\* ---------------------------------------------- DirectedInitialVFlightPath
\* The constructor, one operator per stage.
\* zero distance: brake along the x-axis
DirectedZeroDistance(implementation) ==
    Ok([kind |-> "Directed",
        implementation |-> implementation,
        t_max |-> getMaxTime(implementation)])

\* moving away from the target, or braking needs more than the distance
DirectedBreakThenLine(p_end, a_max, break_path) ==
    LET implementation ==
            combinePath(break_path, LineFlightPath(getEndPosition(break_path), p_end, a_max).v)
    IN  Ok([kind |-> "Directed",
            implementation |-> implementation,
            t_max |-> getMaxTime(implementation)])

\* the line path from the fictive start
DirectedFictive(time_to_initial_v, actual_path) ==
    Ok([kind |-> "Directed",
        implementation |-> actual_path,
        t_max |-> getMaxTime(actual_path) - time_to_initial_v])

\* a slip: braking exactly over the distance is taken for Case A as well
DirectedBranchAtLeast(p_start, p_end, a_max, initial_v, distance, direction, break_path) ==
    IF initial_v < 0 \/ getDistanceToBreak(break_path) >= distance
    THEN DirectedBreakThenLine(p_end, a_max, break_path)
    ELSE DirectedFictive(
             getTimeToBreak(break_path),
             LineFlightPath(Sub(p_start, VMul(direction, getDistanceToBreak(break_path))),
                            p_end, a_max).v)

DirectedBranch(p_start, p_end, a_max, initial_v, distance, direction, break_path) ==
    IF initial_v < 0 \/ getDistanceToBreak(break_path) > distance
    THEN DirectedBreakThenLine(p_end, a_max, break_path)
    ELSE DirectedFictive(
             getTimeToBreak(break_path),
             LineFlightPath(Sub(p_start, VMul(direction, getDistanceToBreak(break_path))),
                            p_end, a_max).v)

DirectedDirection(p_start, p_end, a_max, initial_v, distance, direction) ==
    DirectedBranch(p_start, p_end, a_max, initial_v, distance, direction,
                   BreakFlightPath(p_start, a_max, VMul(direction, initial_v)).v)

\* a slip: the braking velocity is laid along the y-axis
DirectedDistanceAlongY(p_start, p_end, a_max, initial_v, dd, distance) ==
    IF distance = 0
    THEN DirectedZeroDistance(BreakFlightPath(p_start, a_max, Vec(0, initial_v)).v)
    ELSE DirectedDirection(p_start, p_end, a_max, initial_v, distance, VDiv(dd, distance))

DirectedDistance(p_start, p_end, a_max, initial_v, dd, distance) ==
    IF distance = 0
    THEN DirectedZeroDistance(BreakFlightPath(p_start, a_max, Vec(initial_v, 0)).v)
    ELSE DirectedDirection(p_start, p_end, a_max, initial_v, distance, VDiv(dd, distance))

DirectedInitialVFlightPath(p_start, p_end, a_max, initial_v) ==
    IF a_max <= 0 THEN Throw(BadAMax)
    ELSE DirectedDistance(p_start, p_end, a_max, initial_v,
                          Sub(p_end, p_start), Length(Sub(p_end, p_start)))

DirectedPosition(p, t) == rocketPosition(p.implementation, t)

DirectedVelocity(p, t) == rocketVelocity(p.implementation, t)

\* ----------------------------------------------------------- CompositePath
\* positionFn and velocityFn are closures: fn names the closure's code and
\* env holds the variables it captured.
CompositePath(maxTime, fn, env) ==
    [kind |-> "Composite", t_max |-> maxTime, fn |-> fn, env |-> env]

\* ------------------------------------------------------ InitialVFlightPath
calculatePositionAfterCancel(cancelPath, v0_parallel, time) ==
    Add(getEndPosition(cancelPath), VMul(v0_parallel, time))

calculatePositionAfterAlign(startPos, v0_parallel, v0_perp_direction, a_max, time) ==
    Sub(Add(startPos, VMul(v0_parallel, time)),
        VMul(v0_perp_direction, Mul(Mul(Mul(Half, a_max), time), time)))

calculateVelocityAfterAlign(v0_parallel, v0_perp_direction, a_max, time) ==
    Sub(v0_parallel, VMul(v0_perp_direction, Mul(a_max, time)))

Undefined == [defined |-> FALSE]

changeBase(v, u, v0_perp_u) == Vec(Dot(v, u), Dot(v, v0_perp_u))

\* a slip: a negative root q is not rejected
calculateAlignmentTimeNegativeQ(p_end, pos_after_cancel_v0, v0_parallel_len, u, v0_perp_u, a_max) ==
    IF v0_parallel_len = 0 THEN Undefined
    ELSE
    LET start == changeBase(pos_after_cancel_v0, u, v0_perp_u)
        end == Sub(changeBase(p_end, u, v0_perp_u), start)
        ax == Mul(a_max, end.x)
        inner == Mul(ax, ax)
                 + Mul(Mul(Mul(Mul(2 * One, a_max), v0_parallel_len), v0_parallel_len), end.y)
    IN  IF inner < 0 THEN Undefined
        ELSE LET q == Div(Mul(0 - a_max, end.x) + Sqrt(inner),
                          Mul(0 - a_max, v0_parallel_len))
                 x == Mul(v0_parallel_len, q)
             IN  IF x < 0 THEN Undefined
                 ELSE [defined |-> TRUE, q |-> q]

calculateAlignmentTime(p_end, pos_after_cancel_v0, v0_parallel_len, u, v0_perp_u, a_max) ==
    IF v0_parallel_len = 0 THEN Undefined
    ELSE
    LET start == changeBase(pos_after_cancel_v0, u, v0_perp_u)
        end == Sub(changeBase(p_end, u, v0_perp_u), start)
        ax == Mul(a_max, end.x)
        inner == Mul(ax, ax)
                 + Mul(Mul(Mul(Mul(2 * One, a_max), v0_parallel_len), v0_parallel_len), end.y)
    IN  IF inner < 0 THEN Undefined
        ELSE LET q == Div(Mul(0 - a_max, end.x) + Sqrt(inner),
                          Mul(0 - a_max, v0_parallel_len))
                 x == Mul(v0_parallel_len, q)
             IN  IF q < 0 \/ x < 0 THEN Undefined
                 ELSE [defined |-> TRUE, q |-> q]

\* The constructor, one operator per stage; each stage receives the
\* constants the constructor has computed so far.
InitialVPhases(a_max, v0_parallel, v0_perp_direction, v0_cancel_path, alignTime, final_path) ==
    LET time_to_cancel_v0 == getTimeToBreak(v0_cancel_path)
        totalTime == time_to_cancel_v0 + alignTime + getMaxTime(final_path)
    IN  Ok([kind |-> "InitialV",
            implementation |->
                CompositePath(totalTime, "phases",
                              [v0_cancel_path |-> v0_cancel_path,
                               v0_parallel |-> v0_parallel,
                               v0_perp_direction |-> v0_perp_direction,
                               a_max |-> a_max,
                               time_to_cancel_v0 |-> time_to_cancel_v0,
                               alignTime |-> alignTime,
                               final_path |-> final_path]),
            t_max |-> totalTime])

\* time_to_align is defined: the alignment branch
InitialVFeasible(p_end, a_max, v0_parallel, v0_perp_direction, v0_cancel_path, alignTime) ==
    InitialVPhases(a_max, v0_parallel, v0_perp_direction, v0_cancel_path, alignTime,
        DirectedInitialVFlightPath(
            calculatePositionAfterAlign(getEndPosition(v0_cancel_path), v0_parallel,
                                        v0_perp_direction, a_max, alignTime),
            p_end,
            a_max,
            Length(calculateVelocityAfterAlign(v0_parallel, v0_perp_direction,
                                               a_max, alignTime))).v)

\* time_to_align is undefined: break completely, then the direct path
InitialVFallbackCombine(full_break_path, p_end, a_max) ==
    LET implementation ==
            combinePath(full_break_path,
                        DirectedInitialVFlightPath(getEndPosition(full_break_path), p_end, a_max, 0).v)
    IN  Ok([kind |-> "InitialV",
            implementation |-> implementation,
            t_max |-> getMaxTime(implementation)])

\* a slip: only the stop point is kept, the braking itself is dropped
InitialVFallbackNoBreak(p_start, p_end, a_max, v0) ==
    InitialVFallbackCombine(
        BreakFlightPath(getEndPosition(BreakFlightPath(p_start, a_max, v0).v), a_max, Zero).v,
        p_end, a_max)

InitialVFallback(p_start, p_end, a_max, v0) ==
    InitialVFallbackCombine(BreakFlightPath(p_start, a_max, v0).v, p_end, a_max)

InitialVAlign(p_start, p_end, a_max, v0, direction, v0_parallel_len, v0_parallel, v0_perp_direction, v0_cancel_path) ==
    LET time_to_align ==
            calculateAlignmentTime(
                p_end,
                calculatePositionAfterCancel(v0_cancel_path, v0_parallel,
                                             getTimeToBreak(v0_cancel_path)),
                v0_parallel_len, direction, v0_perp_direction, a_max)
    IN  IF time_to_align = Undefined
        THEN InitialVFallback(p_start, p_end, a_max, v0)
        ELSE InitialVFeasible(p_end, a_max, v0_parallel, v0_perp_direction,
                              v0_cancel_path, time_to_align.q)

\* no perpendicular component: the directed path
InitialVAxial(p_start, p_end, a_max, v0_parallel_len) ==
    LET implementation ==
            DirectedInitialVFlightPath(p_start, p_end, a_max, v0_parallel_len).v
    IN  Ok([kind |-> "InitialV",
            implementation |-> implementation,
            t_max |-> getMaxTime(implementation)])

InitialVPerp(p_start, p_end, a_max, v0, direction, v0_parallel_len, v0_parallel, v0_perp, v0_perp_len) ==
    IF v0_perp_len = 0
    THEN InitialVAxial(p_start, p_end, a_max, v0_parallel_len)
    ELSE InitialVAlign(p_start, p_end, a_max, v0, direction, v0_parallel_len, v0_parallel,
                       VDiv(v0_perp, v0_perp_len),
                       BreakFlightPath(p_start, a_max, v0_perp).v)

InitialVParallel(p_start, p_end, a_max, v0, direction, v0_parallel_len, v0_parallel) ==
    InitialVPerp(p_start, p_end, a_max, v0, direction, v0_parallel_len, v0_parallel,
                 Sub(v0, v0_parallel), Length(Sub(v0, v0_parallel)))

InitialVDecompose(p_start, p_end, a_max, v0, direction, v0_parallel_len) ==
    InitialVParallel(p_start, p_end, a_max, v0, direction, v0_parallel_len,
                     VMul(direction, v0_parallel_len))

InitialVDirection(p_start, p_end, a_max, v0, direction) ==
    InitialVDecompose(p_start, p_end, a_max, v0, direction, Dot(v0, direction))

\* zero distance: break to a stop, pinned at the start position
InitialVZeroDistance(p_start, a_max, break_path) ==
    Ok([kind |-> "InitialV",
        implementation |->
            CompositePath(getMaxTime(break_path), "zeroDistance",
                          [break_path |-> break_path, p_start |-> p_start]),
        t_max |-> getMaxTime(break_path)])

InitialVDistance(p_start, p_end, a_max, v0, dd, len) ==
    IF len = 0
    THEN InitialVZeroDistance(p_start, a_max, BreakFlightPath(p_start, a_max, v0).v)
    ELSE InitialVDirection(p_start, p_end, a_max, v0, VDiv(dd, len))

InitialVFlightPath(p_start, p_end, a_max, v0) ==
    IF a_max <= 0 THEN Throw(BadAMax)
    ELSE InitialVDistance(p_start, p_end, a_max, v0,
                          Sub(p_end, p_start), Length(Sub(p_end, p_start)))

\* the closures of the zero-distance branch
\* a slip: the position is not pinned to p_start at the end
ZeroDistancePositionNoPin(env, t) ==
    IF t < 0 THEN Throw(NegativeTime)
    ELSE rocketPosition(env.break_path, t)

ZeroDistancePositionFn(env, t) ==
    IF t < 0 THEN Throw(NegativeTime)
    ELSE LET pos == rocketPosition(env.break_path, t)
         IN  IF ~pos.ok THEN pos
             ELSE IF t >= getMaxTime(env.break_path) THEN Ok(env.p_start) ELSE pos

ZeroDistanceVelocityFn(env, t) == rocketVelocity(env.break_path, t)

\* the three phases of the closures of the alignment branch
\* a slip: the axial drift v0_parallel*t is lost
CancelPhasePositionNoDrift(env, t) == rocketPosition(env.v0_cancel_path, t).v

CancelPhasePosition(env, t) ==
    Add(rocketPosition(env.v0_cancel_path, t).v, VMul(env.v0_parallel, t))

CancelPhaseVelocity(env, t) ==
    Add(rocketVelocity(env.v0_cancel_path, t).v, env.v0_parallel)

AlignPhasePosition(env, align_t) ==
    Sub(Add(getEndPosition(env.v0_cancel_path), VMul(env.v0_parallel, align_t)),
        VMul(env.v0_perp_direction, Mul(Mul(Mul(Half, env.a_max), align_t), align_t)))

AlignPhaseVelocity(env, align_t) ==
    Sub(env.v0_parallel, VMul(env.v0_perp_direction, Mul(env.a_max, align_t)))

PhasesPositionFn(env, t) ==
    IF t < 0 THEN Throw(NegativeTime)
    ELSE IF t <= env.time_to_cancel_v0 THEN Ok(CancelPhasePosition(env, t))
    ELSE IF t <= env.time_to_cancel_v0 + env.alignTime
         THEN Ok(AlignPhasePosition(env, t - env.time_to_cancel_v0))
    ELSE rocketPosition(env.final_path, t - env.time_to_cancel_v0 - env.alignTime)

PhasesVelocityFn(env, t) ==
    IF t < 0 THEN Throw(NegativeTime)
    ELSE IF t <= env.time_to_cancel_v0 THEN Ok(CancelPhaseVelocity(env, t))
    ELSE IF t <= env.time_to_cancel_v0 + env.alignTime
         THEN Ok(AlignPhaseVelocity(env, t - env.time_to_cancel_v0))
    ELSE rocketVelocity(env.final_path, t - env.time_to_cancel_v0 - env.alignTime)

CompositePosition(p, t) ==
    IF p.fn = "zeroDistance" THEN ZeroDistancePositionFn(p.env, t)
    ELSE PhasesPositionFn(p.env, t)

CompositeVelocity(p, t) ==
    IF p.fn = "zeroDistance" THEN ZeroDistanceVelocityFn(p.env, t)
    ELSE PhasesVelocityFn(p.env, t)

InitialVPosition(p, t) == rocketPosition(p.implementation, t)

InitialVVelocity(p, t) == rocketVelocity(p.implementation, t)

rocketPosition(p, t) ==
    CASE p.kind = "Break" -> BreakPosition(p, t)
      [] p.kind = "Line" -> LinePosition(p, t)
      [] p.kind = "Combined" -> CombinedPosition(p, t)
      [] p.kind = "Directed" -> DirectedPosition(p, t)
      [] p.kind = "Composite" -> CompositePosition(p, t)
      [] p.kind = "InitialV" -> InitialVPosition(p, t)

rocketVelocity(p, t) ==
    CASE p.kind = "Break" -> BreakVelocity(p, t)
      [] p.kind = "Line" -> LineVelocity(p, t)
      [] p.kind = "Combined" -> CombinedVelocity(p, t)
      [] p.kind = "Directed" -> DirectedVelocity(p, t)
      [] p.kind = "Composite" -> CompositeVelocity(p, t)
      [] p.kind = "InitialV" -> InitialVVelocity(p, t)

\* ------------------------------------------ FlightPath: the sampling cache
\* _cacheResolution
cacheResolution == 50

\* _cachedPoints before the first access (null); a built cache is a
\* non-empty sequence of TrajectoryState records
NoPoints == << >>

OutOfRange == "Time is outside valid range"

\* reading a property of points[NaN], which is undefined
UndefinedPoint == "Cannot read properties of undefined"

\* this.t_max / this._cacheResolution
TimeStep(p) == Div(getMaxTime(p), cacheResolution * One)

\* the callback of Array.from, for index i
SamplePoint(p, i) ==
    LET t == Mul(TimeStep(p), i * One)
    IN  [position |-> rocketPosition(p, t).v,
         velocity |-> rocketVelocity(p, t).v,
         time |-> t]

\* a slip: one interval per entry, the end of the path is not sampled
BuildPointsNoEnd(p) == [k \in 1..cacheResolution |-> SamplePoint(p, k - 1)]

\* Array.from({length: this._cacheResolution + 1}, ...)
BuildPoints(p) == [k \in 1..(cacheResolution + 1) |-> SamplePoint(p, k - 1)]

\* a slip: the stored sequence is not looked at
getCachedPointsRebuild(p, cached) ==
    [points |-> BuildPoints(p), evaluated |-> cacheResolution + 1]

\* the sequence returned, which is also what _cachedPoints holds after the
\* call, and the number of grid points the call evaluated
getCachedPoints(p, cached) ==
    IF cached = NoPoints
    THEN [points |-> BuildPoints(p), evaluated |-> cacheResolution + 1]
    ELSE [points |-> cached, evaluated |-> 0]

\* a slip: the weight is lost, the earlier grid point is returned
InterpolateNoWeight(p1, p2, alpha, t) ==
    [position |-> p1.position, velocity |-> p1.velocity, time |-> t]

\* points[index] and points[index + 1], interpolated linearly
Interpolate(p1, p2, alpha, t) ==
    [position |-> Add(p1.position, VMul(Sub(p2.position, p1.position), alpha)),
     velocity |-> Add(p1.velocity, VMul(Sub(p2.velocity, p1.velocity), alpha)),
     time |-> t]

\* the part of getStateAtTime after the cache was fetched; t / timeStep is
\* NaN for 0 / 0 and Infinity for a positive t over 0
StateFromPoints(points, timeStep, t) ==
    IF timeStep = 0
    THEN IF t = 0 THEN Throw(UndefinedPoint) ELSE Ok(points[Len(points)])
    ELSE LET index == Div(t, timeStep) \div Scale
         IN  IF index >= Len(points) - 1 THEN Ok(points[Len(points)])
             ELSE Ok(Interpolate(points[index + 1], points[index + 2],
                                 Div(t - points[index + 1].time, timeStep), t))

\* getStateAtTime once the range check has passed
StateInRange(fetched, timeStep, t) ==
    [ret |-> StateFromPoints(fetched.points, timeStep, t),
     cachedPoints |-> fetched.points,
     evaluated |-> fetched.evaluated]

\* a slip: times past the end are not rejected
getStateAtTimeNoUpper(p, cached, t) ==
    IF t < 0
    THEN [ret |-> Throw(OutOfRange), cachedPoints |-> cached, evaluated |-> 0]
    ELSE StateInRange(getCachedPoints(p, cached), TimeStep(p), t)

\* the value returned (or the error thrown), the cache the call leaves and
\* the number of grid points it evaluated
getStateAtTime(p, cached, t) ==
    IF t < 0 \/ t > getMaxTime(p)
    THEN [ret |-> Throw(OutOfRange), cachedPoints |-> cached, evaluated |-> 0]
    ELSE StateInRange(getCachedPoints(p, cached), TimeStep(p), t)

\* ------------------------------------------------------------------ inputs
Coords == {c * One : c \in (0 - MaxCoord)..MaxCoord}

StartPoints == {Vec(0, 0), Vec(One, 0 - One)}

\* end points to the right of the y-axis (the mirror images add nothing)
EndPoints == {Vec(x, y) : x \in {c \in Coords : c >= 0}, y \in Coords}

AMaxValues == {a * One : a \in MinAcc..MaxAcc}

Speeds == {s * One : s \in (0 - MaxSpeed)..MaxSpeed}

Velocities == {Vec(x, y) : x \in Speeds, y \in Speeds}

\* an end point off the axes and the diagonals, whose direction (0.6, 0.8)
\* has no exact representation, and a velocity perpendicular to it
SkewEnd == Vec(3 * One, 4 * One)

SkewVelocity == Vec(4 * One, 0 - 3 * One)

\* the pairs (p_end, v0) an InitialVFlightPath is built with
InitialVInputs == (EndPoints \X Velocities) \cup {<<SkewEnd, SkewVelocity>>}

\* the times a path is queried at: fractions of t_max, the midpoint, the
\* end, past the end, and before the start
QueryTimes(p) ==
    {Div(k * getMaxTime(p), TimeSteps * One) : k \in 0..TimeSteps}
    \cup {HalfTMax(p), getMaxTime(p), getMaxTime(p) + 1, getMaxTime(p) + One,
          getMaxTime(p) + 3 * One, 0 - 1, 0 - One}

\* the times getStateAtTime is called with: before the start, the start, a
\* time inside the first sampling interval, a time on the sampling grid, the
\* midpoint, the end, and past the end
StateTimes(p) ==
    {0 - 1, 0, Div(TimeStep(p), 2 * One), Mul(TimeStep(p), 7 * One), HalfTMax(p),
     getMaxTime(p), getMaxTime(p) + 1}

\* ------------------------------------------------------------------- state
VARIABLES pc, args, path, thrown, tq, pos, vel, cachedPoints, evaluations, ret, hit

vars == <<pc, args, path, thrown, tq, pos, vel, cachedPoints, evaluations, ret, hit>>

NoPath == [kind |-> "None"]

NoResult == [ok |-> FALSE, err |-> ""]

NoArgs == [ctor |-> "None"]

Init ==
    /\ pc = "new"
    /\ args = NoArgs
    /\ path = NoPath
    /\ thrown = ""
    /\ tq = 0
    /\ pos = NoResult
    /\ vel = NoResult
    /\ cachedPoints = NoPoints
    /\ evaluations = 0
    /\ ret = NoResult
    /\ hit = FALSE

\* the outcome of a constructor call: an instance, or an error and no instance
Constructed(r) ==
    /\ pc' = IF r.ok THEN "constructed" ELSE "failed"
    /\ path' = IF r.ok THEN r.v ELSE NoPath
    /\ thrown' = IF r.ok THEN "" ELSE r.err
    /\ UNCHANGED <<tq, pos, vel, cachedPoints, evaluations, ret, hit>>

NewBreakFlightPath ==
    /\ pc = "new"
    /\ \E p \in StartPoints, a \in AMaxValues, v \in Velocities :
          /\ args' = [ctor |-> "Break", p_start |-> p, a_max |-> a, v |-> v]
          /\ Constructed(BreakFlightPath(p, a, v))

NewLineFlightPath ==
    /\ pc = "new"
    /\ \E p \in StartPoints, e \in EndPoints, a \in AMaxValues :
          /\ args' = [ctor |-> "Line", p_start |-> p, p_end |-> e, a_max |-> a]
          /\ Constructed(LineFlightPath(p, e, a))

NewCombinedPath ==
    /\ pc = "new"
    /\ \E p \in {Zero}, e \in EndPoints, a \in {x \in AMaxValues : x > 0}, v \in Velocities :
          /\ args' = [ctor |-> "Combined", p_start |-> p, p_end |-> e, a_max |-> a, v |-> v]
          /\ LET path1 == BreakFlightPath(p, a, v).v
                 path2 == LineFlightPath(getEndPosition(path1), e, a).v
             IN  Constructed(Ok(combinePath(path1, path2)))

NewDirectedInitialVFlightPath ==
    /\ pc = "new"
    /\ \E p \in StartPoints, e \in EndPoints, a \in AMaxValues, iv \in Speeds :
          /\ args' = [ctor |-> "Directed", p_start |-> p, p_end |-> e, a_max |-> a,
                      initial_v |-> iv]
          /\ Constructed(DirectedInitialVFlightPath(p, e, a, iv))

NewInitialVFlightPath ==
    /\ pc = "new"
    /\ \E p \in {Zero}, a \in AMaxValues, ev \in InitialVInputs :
          /\ args' = [ctor |-> "InitialV", p_start |-> p, p_end |-> ev[1], a_max |-> a,
                      v0 |-> ev[2]]
          /\ Constructed(InitialVFlightPath(p, ev[1], a, ev[2]))

\* one evaluation of the path: rocketPosition(t), then rocketVelocity(t)
Query ==
    /\ pc \in {"constructed", "queried"}
    /\ \E t \in QueryTimes(path) :
          /\ tq' = t
          /\ pos' = rocketPosition(path, t)
          /\ vel' = rocketVelocity(path, t)
    /\ pc' = "queried"
    /\ UNCHANGED <<args, path, thrown, cachedPoints, evaluations, ret, hit>>

Next ==
    \/ NewBreakFlightPath
    \/ NewLineFlightPath
    \/ NewCombinedPath
    \/ NewDirectedInitialVFlightPath
    \/ NewInitialVFlightPath
    \/ Query

Spec == Init /\ [][Next]_vars

\* ------------------------------------------- the sampling cache in use
\* the paths whose cache is used: every class, built from small inputs with
\* the end point on an axis
CacheEnds ==
    {Vec(x * One, 0) : x \in 0..CacheCoord} \cup {Vec(0, 0 - y * One) : y \in 0..CacheCoord}

CacheAccs == {One, 2 * One}

CacheSpeeds == {s * One : s \in (0 - CacheCoord)..CacheCoord}

CacheVelocities == {Vec(x, y) : x \in CacheSpeeds, y \in CacheSpeeds}

BreakArgs ==
    {[ctor |-> "Break", p_start |-> Zero, a_max |-> a, v |-> v] :
        a \in CacheAccs, v \in CacheVelocities}

LineArgs ==
    {[ctor |-> "Line", p_start |-> Zero, p_end |-> e, a_max |-> a] :
        e \in CacheEnds, a \in CacheAccs}

CombinedArgs ==
    {[ctor |-> "Combined", p_start |-> Zero, p_end |-> e, a_max |-> a, v |-> v] :
        e \in CacheEnds, a \in CacheAccs, v \in {Vec(x, 0) : x \in CacheSpeeds}}

DirectedArgs ==
    {[ctor |-> "Directed", p_start |-> Zero, p_end |-> e, a_max |-> a, initial_v |-> iv] :
        e \in CacheEnds, a \in CacheAccs, iv \in CacheSpeeds}

InitialVArgs ==
    {[ctor |-> "InitialV", p_start |-> Zero, p_end |-> e, a_max |-> a, v0 |-> v] :
        e \in CacheEnds, a \in CacheAccs, v \in CacheVelocities}

CacheArgs == BreakArgs \cup LineArgs \cup CombinedArgs \cup DirectedArgs \cup InitialVArgs

\* the instance the constructor call of a builds
Construct(a) ==
    CASE a.ctor = "Break" -> BreakFlightPath(a.p_start, a.a_max, a.v).v
      [] a.ctor = "Line" -> LineFlightPath(a.p_start, a.p_end, a.a_max).v
      [] a.ctor = "Combined" ->
            combinePath(BreakFlightPath(a.p_start, a.a_max, a.v).v,
                        LineFlightPath(getEndPosition(BreakFlightPath(a.p_start, a.a_max, a.v).v),
                                       a.p_end, a.a_max).v)
      [] a.ctor = "Directed" ->
            DirectedInitialVFlightPath(a.p_start, a.p_end, a.a_max, a.initial_v).v
      [] a.ctor = "InitialV" -> InitialVFlightPath(a.p_start, a.p_end, a.a_max, a.v0).v

\* a freshly constructed instance: no cache yet
InitCache ==
    /\ pc = "constructed"
    /\ args \in CacheArgs
    /\ path = Construct(args)
    /\ thrown = ""
    /\ tq = 0
    /\ pos = NoResult
    /\ vel = NoResult
    /\ cachedPoints = NoPoints
    /\ evaluations = 0
    /\ ret = NoResult
    /\ hit = FALSE

\* what a call leaves in the cache; evaluations counts the grid points
\* evaluated so far, hit tells whether the call found the cache built
CacheAccess(after, evaluated) ==
    /\ cachedPoints' = after
    /\ evaluations' = evaluations + evaluated
    /\ hit' = (cachedPoints # NoPoints)

\* one call of getCachedPoints()
GetCachedPoints ==
    /\ \E r \in {getCachedPoints(path, cachedPoints)} :
          /\ CacheAccess(r.points, r.evaluated)
          /\ ret' = Ok(r.points)
    /\ pc' = "sampled"
    /\ tq' = 0
    /\ UNCHANGED <<args, path, thrown, pos, vel>>

\* one call of getStateAtTime(t)
GetStateAtTime ==
    /\ \E t \in StateTimes(path) : \E r \in {getStateAtTime(path, cachedPoints, t)} :
          /\ tq' = t
          /\ CacheAccess(r.cachedPoints, r.evaluated)
          /\ ret' = r.ret
    /\ pc' = "interpolated"
    /\ UNCHANGED <<args, path, thrown, pos, vel>>

NextCache ==
    \/ GetCachedPoints
    \/ GetStateAtTime

SpecCache == InitCache /\ [][NextCache]_vars

\* ------------------------------------------------------------------ claims
Queried == pc = "queried"

AtEnd == Queried /\ tq = getMaxTime(path)

AtStart == Queried /\ tq = 0

InitialVCase == args.ctor = "InitialV" /\ pc # "new" /\ args.a_max > 0

\* C1: every InitialVFlightPath built from valid inputs arrives:
\* rocketPosition(getMaxTime()) is p_end and rocketVelocity(getMaxTime()) is
\* the zero vector, in every branch.
C1_InitialVArrives ==
    (InitialVCase /\ AtEnd) =>
        /\ pos.ok /\ Close(pos.v, args.p_end)
        /\ vel.ok /\ Close(vel.v, Zero)

\* C2: every InitialVFlightPath built from valid inputs starts in the given
\* state: rocketPosition(0) is p_start and rocketVelocity(0) is v0, in every
\* branch.
C2_InitialVStarts ==
    (InitialVCase /\ AtStart) =>
        /\ pos.ok /\ Close(pos.v, args.p_start)
        /\ vel.ok /\ Close(vel.v, args.v0)

DirectedCase ==
    args.ctor = "Directed" /\ pc # "new" /\ args.a_max > 0 /\ args.p_start # args.p_end

\* Case B of the constructor: the implementation is the line path from the
\* fictive start
DirectedCaseB == DirectedCase /\ path.implementation.kind = "Line"

\* C3: every DirectedInitialVFlightPath with p_start # p_end, a_max > 0 and
\* any signed initial_v arrives: rocketPosition(getMaxTime()) is p_end and
\* rocketVelocity(getMaxTime()) is the zero vector.
C3_DirectedArrives ==
    (DirectedCase /\ AtEnd) =>
        /\ pos.ok /\ Close(pos.v, args.p_end)
        /\ vel.ok /\ Close(vel.v, Zero)

DirectedDirectionOf(a) ==
    VDiv(Sub(a.p_end, a.p_start), Length(Sub(a.p_end, a.p_start)))

\* C4: in Case B a DirectedInitialVFlightPath is the suffix of the line
\* path L from the fictive start, shifted by initial_v/a_max: on [0, t_max]
\* its position and velocity at t are those of L at t + initial_v/a_max; it
\* is at p_start with velocity direction*initial_v at time 0.
C4_DirectedSuffix ==
    (DirectedCaseB /\ Queried /\ tq >= 0 /\ tq <= getMaxTime(path)) =>
        LET shift == Div(args.initial_v, args.a_max)
        IN  /\ pos.ok /\ Close(pos.v, LinePosition(path.implementation, tq + shift).v)
            /\ vel.ok /\ Close(vel.v, LineVelocity(path.implementation, tq + shift).v)
            /\ tq = 0 =>
                   /\ Close(pos.v, args.p_start)
                   /\ Close(vel.v, VMul(DirectedDirectionOf(args), args.initial_v))

\* C5: on every path, for t > getMaxTime() rocketPosition(t) and
\* rocketVelocity(t) are the values at getMaxTime(), and neither fails.
C5_HoldsPastEnd ==
    (Queried /\ tq > getMaxTime(path)) =>
        /\ pos.ok /\ Close(pos.v, rocketPosition(path, getMaxTime(path)).v)
        /\ vel.ok /\ Close(vel.v, rocketVelocity(path, getMaxTime(path)).v)

\* the alignment branch of the InitialVFlightPath constructor was taken
FeasibleCase ==
    /\ InitialVCase
    /\ path.implementation.kind = "Composite"
    /\ path.implementation.fn = "phases"

\* C6: in the alignment branch position and velocity are continuous at both
\* phase boundaries: at t1 the cancellation phase ends where the alignment
\* phase starts, and at t1 + t2 the alignment phase ends in the final
\* path's rocketPosition(0) and rocketVelocity(0).
C6_PhaseContinuity ==
    FeasibleCase =>
        LET env == path.implementation.env
        IN  /\ Close(CancelPhasePosition(env, env.time_to_cancel_v0),
                     AlignPhasePosition(env, 0))
            /\ Close(CancelPhaseVelocity(env, env.time_to_cancel_v0),
                     AlignPhaseVelocity(env, 0))
            /\ Close(AlignPhasePosition(env, env.alignTime),
                     rocketPosition(env.final_path, 0).v)
            /\ Close(AlignPhaseVelocity(env, env.alignTime),
                     rocketVelocity(env.final_path, 0).v)

LineCase == args.ctor = "Line" /\ pc # "new" /\ args.a_max > 0 /\ args.p_start # args.p_end

\* C7: a LineFlightPath with distinct start and end and a_max > 0 has
\* getMaxTime() = 2*sqrt(|end - start| / a_max) (so a_max*(t_max/2)^2 is the
\* distance), is at start at time 0 and at end at t_max, and is at rest at
\* both times.
C7_LineEndpoints ==
    LineCase =>
        /\ pc # "failed"
        /\ getMaxTime(path)
             = 2 * Sqrt(Div(Length(Sub(args.p_end, args.p_start)), args.a_max))
        /\ CloseNum(Mul(Mul(args.a_max, HalfTMax(path)), HalfTMax(path)),
                    Length(Sub(args.p_end, args.p_start)))
        /\ AtStart => pos = Ok(args.p_start) /\ vel = Ok(Zero)
        /\ AtEnd => pos = Ok(args.p_end) /\ vel = Ok(Zero)

C7_Witness ==
    /\ LineCase
    /\ AtEnd
    /\ getMaxTime(path) > 0
    /\ pos = Ok(args.p_end)
    /\ vel = Ok(Zero)

LineMidPosition(p) == Add(p.p_start, VMul(p.direction, Div(p.distance, 2 * One)))

LineMidVelocity(p) == VMul(p.direction, Mul(p.a_max, HalfTMax(p)))

\* C8: on a non-degenerate LineFlightPath the acceleration-phase and the
\* deceleration-phase formulas agree at t = t_max/2, where the position is
\* start + direction*(distance/2) and the velocity is
\* direction*(a_max*t_max/2); no speed on [0, t_max] exceeds that speed.
C8_LineMidpoint ==
    LineCase =>
        /\ Close(LineAccelPosition(path, HalfTMax(path)), LineMidPosition(path))
        /\ Close(LineDecelPosition(path, HalfTMax(path)), LineMidPosition(path))
        /\ LineAccelVelocity(path, HalfTMax(path)) = LineMidVelocity(path)
        /\ LineDecelVelocity(path, HalfTMax(path)) = LineMidVelocity(path)
        /\ (Queried /\ tq = HalfTMax(path)) =>
               /\ pos.ok /\ Close(pos.v, LineMidPosition(path))
               /\ vel = Ok(LineMidVelocity(path))
        /\ (Queried /\ tq >= 0 /\ tq <= getMaxTime(path)) =>
               vel.ok /\ Length(vel.v) <= Length(LineMidVelocity(path))

C8_Witness ==
    /\ LineCase
    /\ Queried
    /\ tq = HalfTMax(path)
    /\ tq > 0
    /\ Close(pos.v, LineMidPosition(path))
    /\ Length(vel.v) > 0

BreakCase == args.ctor = "Break" /\ pc # "new" /\ args.a_max > 0

\* |v|^2 / (2*a_max)
BreakStopDistance(v, a_max) == Div(Mul(Length(v), Length(v)), 2 * a_max)

\* C9: a BreakFlightPath(start, a_max > 0, v) has getMaxTime() = |v|/a_max
\* and getEndPosition() = start + normOrZero(v)*(|v|^2/(2*a_max)); it is at
\* start with velocity v at time 0, at rest at t_max, and for t > t_max at
\* the end position at rest; for v = 0 it has t_max = 0 and stays at start
\* at rest.
C9_BreakPath ==
    BreakCase =>
        /\ pc # "failed"
        /\ getMaxTime(path) = Div(Length(args.v), args.a_max)
        /\ Close(getEndPosition(path),
                 Add(args.p_start,
                     VMul(NormOrZero(args.v), BreakStopDistance(args.v, args.a_max))))
        /\ AtStart => /\ pos.ok /\ Close(pos.v, args.p_start)
                      /\ vel.ok /\ Close(vel.v, args.v)
        /\ AtEnd => vel = Ok(Zero)
        /\ (Queried /\ tq > getMaxTime(path)) =>
               pos = Ok(getEndPosition(path)) /\ vel = Ok(Zero)
        /\ args.v = Zero =>
               /\ getMaxTime(path) = 0
               /\ (Queried /\ tq >= 0) => pos = Ok(args.p_start) /\ vel = Ok(Zero)

C9_Witness ==
    /\ BreakCase
    /\ args.v # Zero
    /\ Queried
    /\ tq > getMaxTime(path)
    /\ getMaxTime(path) > 0
    /\ pos = Ok(getEndPosition(path))
    /\ getEndPosition(path) # args.p_start

\* C10: on every path, rocketPosition(t) and rocketVelocity(t) with t < 0
\* fail with 'Time cannot be negative' and return no value.
C10_NegativeTime ==
    (Queried /\ tq < 0) => pos = Throw(NegativeTime) /\ vel = Throw(NegativeTime)

C10_Witness ==
    /\ args.ctor = "Line"
    /\ args.p_start = args.p_end
    /\ Queried
    /\ tq < 0
    /\ pos = Throw(NegativeTime)
    /\ vel = Throw(NegativeTime)

\* ------------------------------------------- calls with arbitrary values
\* A JavaScript value that is not a Vec2 instance: its typeof, and for a
\* number whether it is finite (then n is the number), NaN or +-Infinity.
\* A Vec2 instance is a record Vec(x, y) of two finite numbers; the
\* operators Add, Sub, VMul, VDiv above are the methods as the flight paths
\* call them, on instances and finite numbers; add, sub, mul, div below are
\* the same methods on any argument.
Num(n) == [type |-> "number", kind |-> "finite", n |-> n]

NonFinite == {[type |-> "number", kind |-> k, n |-> 0] : k \in {"NaN", "Infinity", "-Infinity"}}

NonNumbers == {[type |-> t, kind |-> "", n |-> 0] : t \in {"string", "undefined", "object"}}

\* typeof a === 'number'
IsNumber(a) == a.type = "number"

\* Number.isFinite(a)
IsFinite(a) == a.type = "number" /\ a.kind = "finite"

\* v instanceof Vec2
InstanceOfVec2(v) == DOMAIN v = {"x", "y"}

\* x * s, for a finite x and a number s
Times(x, s) ==
    IF s.kind = "finite" THEN Num(Mul(x, s.n))
    ELSE IF s.kind = "NaN" \/ x = 0 THEN [type |-> "number", kind |-> "NaN", n |-> 0]
    ELSE IF (s.kind = "Infinity") = (x > 0) THEN [type |-> "number", kind |-> "Infinity", n |-> 0]
    ELSE [type |-> "number", kind |-> "-Infinity", n |-> 0]

\* x / s, for a finite x and a number s other than 0
Over(x, s) ==
    IF s.kind = "finite" THEN Num(Div(x, s.n))
    ELSE IF s.kind = "NaN" THEN s
    ELSE Num(0)

\* a slip: the check for finite numbers is lost
NewVec2Unchecked(x, y) ==
    IF ~IsNumber(x) \/ ~IsNumber(y) THEN Throw("Vec2 coordinates must be numbers")
    ELSE Ok(Vec(x.n, y.n))

\* new Vec2(x, y)
NewVec2(x, y) ==
    IF ~IsNumber(x) \/ ~IsNumber(y) THEN Throw("Vec2 coordinates must be numbers")
    ELSE IF ~IsFinite(x) \/ ~IsFinite(y) THEN Throw("Vec2 coordinates must be finite numbers")
    ELSE Ok(Vec(x.n, y.n))

add(u, v) ==
    IF ~InstanceOfVec2(v) THEN Throw("Can only add Vec2 instances")
    ELSE NewVec2(Num(u.x + v.x), Num(u.y + v.y))

sub(u, v) ==
    IF ~InstanceOfVec2(v) THEN Throw("Can only subtract Vec2 instances")
    ELSE NewVec2(Num(u.x - v.x), Num(u.y - v.y))

mul(u, s) ==
    IF ~IsNumber(s) THEN Throw("Can only multiply by number")
    ELSE NewVec2(Times(u.x, s), Times(u.y, s))

\* a slip: the check for a zero divisor is lost; x / 0 is NaN or +-Infinity
divNoZeroCheck(u, s) ==
    IF ~IsNumber(s) THEN Throw("Can only divide by number")
    ELSE IF s = Num(0) THEN NewVec2(Times(u.x, [s EXCEPT !.kind = "Infinity"]),
                                    Times(u.y, [s EXCEPT !.kind = "Infinity"]))
    ELSE NewVec2(Over(u.x, s), Over(u.y, s))

div(u, s) ==
    IF ~IsNumber(s) THEN Throw("Can only divide by number")
    ELSE IF s = Num(0) THEN Throw("Division by zero")
    ELSE NewVec2(Over(u.x, s), Over(u.y, s))

norm(u) ==
    IF Length(u) = 0 THEN Throw("Cannot normalize zero vector")
    ELSE div(u, Num(Length(u)))

normOrZero(u) == IF Length(u) = 0 THEN Ok(Zero) ELSE div(u, Num(Length(u)))

dot(u, v) ==
    IF ~InstanceOfVec2(v) THEN Throw("Can only dot product with Vec2")
    ELSE Ok(Mul(u.x, v.x) + Mul(u.y, v.y))

cross(u, v) ==
    IF ~InstanceOfVec2(v) THEN Throw("Can only cross product with Vec2")
    ELSE Ok(Mul(u.x, v.y) - Mul(u.y, v.x))

equals(u, v) ==
    IF ~InstanceOfVec2(v) THEN Ok(FALSE)
    ELSE Ok(u.x = v.x /\ u.y = v.y)

\* the constructor of a flight path class called with any value for a_max,
\* the other arguments valid: typeof a_max !== 'number' || a_max <= 0
NewFlightPath(class, p_end, a_max) ==
    IF ~IsNumber(a_max) THEN Throw(BadAMax)
    ELSE CASE class = "BreakFlightPath" -> BreakFlightPath(Zero, a_max.n, p_end)
           [] class = "LineFlightPath" -> LineFlightPath(Zero, p_end, a_max.n)
           [] class = "DirectedInitialVFlightPath" ->
                 DirectedInitialVFlightPath(Zero, p_end, a_max.n, One)
           [] class = "InitialVFlightPath" ->
                 InitialVFlightPath(Zero, p_end, a_max.n, Vec(One, One))

\* the values, finite numbers among them, and the Vec2 instances passed
FiniteNumbers == {Num(n) : n \in Speeds}

Values == FiniteNumbers \cup NonFinite \cup NonNumbers

InitValues ==
    /\ pc = "new"
    /\ args = NoArgs
    /\ path = NoPath
    /\ thrown = ""
    /\ tq = 0
    /\ pos = NoResult
    /\ vel = NoResult
    /\ cachedPoints = NoPoints
    /\ evaluations = 0
    /\ ret = NoResult
    /\ hit = FALSE

\* a method call returned or threw
Returned(call, r) ==
    /\ pc = "new"
    /\ args' = call
    /\ ret' = r
    /\ pc' = "returned"
    /\ UNCHANGED <<path, thrown, tq, pos, vel, cachedPoints, evaluations, hit>>

CallNewVec2 ==
    \E x \in Values, y \in Values :
        Returned([method |-> "Vec2", x |-> x, y |-> y], NewVec2(x, y))

\* the methods that take a vector
CallWithVector ==
    \E u \in Velocities, v \in Velocities \cup Values :
        \/ Returned([method |-> "add", this |-> u, arg |-> v], add(u, v))
        \/ Returned([method |-> "sub", this |-> u, arg |-> v], sub(u, v))
        \/ Returned([method |-> "dot", this |-> u, arg |-> v], dot(u, v))
        \/ Returned([method |-> "cross", this |-> u, arg |-> v], cross(u, v))
        \/ Returned([method |-> "equals", this |-> u, arg |-> v], equals(u, v))

\* the methods that take a number
CallWithNumber ==
    \E u \in Velocities, s \in Values :
        \/ Returned([method |-> "mul", this |-> u, arg |-> s], mul(u, s))
        \/ Returned([method |-> "div", this |-> u, arg |-> s], div(u, s))

\* the methods that take nothing
CallNorm ==
    \E u \in Velocities :
        \/ Returned([method |-> "norm", this |-> u], norm(u))
        \/ Returned([method |-> "normOrZero", this |-> u], normOrZero(u))

\* a flight path constructor called with any finite or non-number a_max
CallNewFlightPath ==
    /\ pc = "new"
    /\ \E class \in {"BreakFlightPath", "LineFlightPath", "DirectedInitialVFlightPath",
                     "InitialVFlightPath"},
          e \in {Vec(One, 0), Vec(0, 2 * One)},
          a \in FiniteNumbers \cup NonNumbers :
          /\ args' = [method |-> class, p_end |-> e, a_max |-> a]
          /\ Constructed(NewFlightPath(class, e, a))

NextValues ==
    \/ CallNewVec2
    \/ CallWithVector
    \/ CallWithNumber
    \/ CallNorm
    \/ CallNewFlightPath

SpecValues == InitValues /\ [][NextValues]_vars

\* ---------------------------------------------------- claims on the cache
Interpolated == pc = "interpolated"

Sampled == pc = "sampled"

\* C11: getStateAtTime(t) with t < 0 or t > getMaxTime() fails with the
\* range error: it returns no state, and it neither builds nor changes the
\* sampling cache.
C11_OutOfRangeFails ==
    [][(pc' = "interpolated" /\ (tq' < 0 \/ tq' > getMaxTime(path)))
          => /\ ret' = Throw(OutOfRange)
             /\ cachedPoints' = cachedPoints
             /\ evaluations' = evaluations]_vars

C11_Witness ==
    /\ Interpolated
    /\ getMaxTime(path) > 0
    /\ tq > getMaxTime(path)
    /\ ret = Throw(OutOfRange)
    /\ cachedPoints = NoPoints

\* C12: the sampling cache is built at most once: a call of
\* getCachedPoints() or getStateAtTime() that finds the cache built
\* evaluates no grid point and leaves the stored sequence as it is, every
\* getCachedPoints() returns the stored sequence, and over all calls the
\* grid is evaluated once at most.
C12_BuiltOnce ==
    [][/\ cachedPoints # NoPoints =>
             /\ cachedPoints' = cachedPoints
             /\ evaluations' = evaluations
       /\ pc' = "sampled" => ret' = Ok(cachedPoints')
       /\ evaluations' \in {0, cacheResolution + 1}]_vars

C12_Witness ==
    /\ Sampled
    /\ hit
    /\ ret = Ok(cachedPoints)
    /\ evaluations = cacheResolution + 1

\* i * t_max / resolution
GridTime(p, i) == RoundDiv(i * getMaxTime(p), cacheResolution)

\* C13: for a path with t_max > 0 the cache holds resolution + 1 = 51
\* triples in strictly increasing order of time; the i-th has time
\* i*t_max/50 and the path's rocketPosition and rocketVelocity at that time;
\* the first is at time 0 and the last at t_max.
C13_CachedGrid ==
    (cachedPoints # NoPoints /\ getMaxTime(path) > 0) =>
        /\ Len(cachedPoints) = 51
        /\ \A k \in 1..Len(cachedPoints) :
              /\ CloseNum(cachedPoints[k].time, GridTime(path, k - 1))
              /\ Ok(cachedPoints[k].position) = rocketPosition(path, cachedPoints[k].time)
              /\ Ok(cachedPoints[k].velocity) = rocketVelocity(path, cachedPoints[k].time)
        /\ \A k \in 1..(Len(cachedPoints) - 1) :
              cachedPoints[k].time < cachedPoints[k + 1].time
        /\ cachedPoints[1].time = 0
        /\ CloseNum(cachedPoints[Len(cachedPoints)].time, getMaxTime(path))

C13_Witness ==
    /\ Sampled
    /\ getMaxTime(path) > 0
    /\ Len(cachedPoints) = 51
    /\ cachedPoints[1].time = 0
    /\ CloseNum(cachedPoints[51].time, getMaxTime(path))
    /\ cachedPoints[1].position # cachedPoints[51].position

\* C14: for a degenerate path, one with getMaxTime() = 0, the cache holds
\* exactly one point.
C14_SinglePoint ==
    (cachedPoints # NoPoints /\ getMaxTime(path) = 0) => Len(cachedPoints) = 1

\* ------------------------------------------------------- claims, continued
CombinedCase == args.ctor = "Combined" /\ pc # "new"

\* the two paths NewCombinedPath hands to combinePath
CombinedFirst(a) == BreakFlightPath(a.p_start, a.a_max, a.v).v

CombinedSecond(a) == LineFlightPath(getEndPosition(CombinedFirst(a)), a.p_end, a.a_max).v

\* C15: combinePath(path1, path2) has getMaxTime() = path1.getMaxTime() +
\* path2.getMaxTime(); its rocketPosition and rocketVelocity at t are those
\* of path1 at t for 0 <= t <= path1.getMaxTime(), the seam included, and
\* those of path2 at t - path1.getMaxTime() after it, unchanged.
C15_CombinePath ==
    CombinedCase =>
        /\ getMaxTime(path)
             = getMaxTime(CombinedFirst(args)) + getMaxTime(CombinedSecond(args))
        /\ (Queried /\ tq >= 0 /\ tq <= getMaxTime(CombinedFirst(args))) =>
               /\ pos = rocketPosition(CombinedFirst(args), tq)
               /\ vel = rocketVelocity(CombinedFirst(args), tq)
        /\ (Queried /\ tq > getMaxTime(CombinedFirst(args))) =>
               /\ pos = rocketPosition(CombinedSecond(args),
                                       tq - getMaxTime(CombinedFirst(args)))
               /\ vel = rocketVelocity(CombinedSecond(args),
                                       tq - getMaxTime(CombinedFirst(args)))

C15_Witness ==
    /\ CombinedCase
    /\ Queried
    /\ getMaxTime(CombinedFirst(args)) > 0
    /\ tq > getMaxTime(CombinedFirst(args))
    /\ tq < getMaxTime(path)
    /\ pos = rocketPosition(CombinedSecond(args), tq - getMaxTime(CombinedFirst(args)))
    /\ pos # rocketPosition(CombinedSecond(args), tq)

\* ------------------------------------------ claims on calls with any value
NewFlightPathCase ==
    /\ pc \in {"constructed", "failed"}
    /\ args.method \in {"BreakFlightPath", "LineFlightPath", "DirectedInitialVFlightPath",
                        "InitialVFlightPath"}

\* C16: constructing a BreakFlightPath, LineFlightPath,
\* DirectedInitialVFlightPath or InitialVFlightPath with an a_max that is
\* not a number or is <= 0 fails with 'a_max must be positive number' and
\* yields no instance; with a positive a_max it yields an instance holding
\* that a_max.
C16_BadAMaxFails ==
    NewFlightPathCase =>
        IF ~IsNumber(args.a_max) \/ args.a_max.n <= 0
        THEN /\ pc = "failed"
             /\ thrown = "a_max must be positive number"
             /\ path = NoPath
        ELSE /\ pc = "constructed"
             /\ args.method \in {"BreakFlightPath", "LineFlightPath"} =>
                    path.a_max = args.a_max.n

C16_Witness ==
    /\ NewFlightPathCase
    /\ args.method = "LineFlightPath"
    /\ args.a_max = Num(0)
    /\ pc = "failed"
    /\ thrown = "a_max must be positive number"
    /\ path = NoPath

ReturnedCase == pc = "returned"

\* C18: new Vec2(x, y) fails with 'Vec2 coordinates must be numbers' when x
\* or y is not of type number, whatever the other is, and with 'Vec2
\* coordinates must be finite numbers' when both are numbers and one is NaN
\* or +-Infinity; a Vec2 that the constructor, add, sub, mul or div returns
\* has two finite numbers as components.
C18_Vec2Validated ==
    /\ (ReturnedCase /\ args.method = "Vec2") =>
          IF ~IsNumber(args.x) \/ ~IsNumber(args.y)
          THEN ret = Throw("Vec2 coordinates must be numbers")
          ELSE IF ~IsFinite(args.x) \/ ~IsFinite(args.y)
               THEN ret = Throw("Vec2 coordinates must be finite numbers")
               ELSE ret = Ok(Vec(args.x.n, args.y.n))
    /\ (ReturnedCase /\ args.method \in {"Vec2", "add", "sub", "mul", "div"} /\ ret.ok) =>
          /\ InstanceOfVec2(ret.v)
          /\ ret.v.x \in Int
          /\ ret.v.y \in Int

C18_Witness ==
    /\ ReturnedCase
    /\ args.method = "mul"
    /\ args.this # Zero
    /\ IsNumber(args.arg)
    /\ ~IsFinite(args.arg)
    /\ ret = Throw("Vec2 coordinates must be finite numbers")

\* C19: div(0) fails with 'Division by zero'; norm() of a zero-length
\* vector fails with 'Cannot normalize zero vector'; normOrZero() of a
\* zero-length vector returns the zero vector; for a vector of non-zero
\* length norm() and normOrZero() return the same vector, of length 1.
C19_SingularOperations ==
    /\ (ReturnedCase /\ args.method = "div" /\ args.arg = Num(0)) =>
          ret = Throw("Division by zero")
    /\ (ReturnedCase /\ args.method = "norm" /\ args.this = Zero) =>
          ret = Throw("Cannot normalize zero vector")
    /\ (ReturnedCase /\ args.method = "normOrZero" /\ args.this = Zero) =>
          ret = Ok(Zero)
    /\ (ReturnedCase /\ args.method \in {"norm", "normOrZero"} /\ args.this # Zero) =>
          /\ ret.ok
          /\ ret = norm(args.this)
          /\ ret = normOrZero(args.this)
          /\ CloseNum(Length(ret.v), One)

C19_Witness ==
    /\ ReturnedCase
    /\ args.method = "norm"
    /\ args.this # Zero
    /\ ret.ok
    /\ ret = normOrZero(args.this)
    /\ ret.v # args.this

\* C20: add, sub, dot, cross and equals fail with an error when the
\* argument is not a Vec2 instance; none returns a value.
C20_NonVec2Rejected ==
    (/\ ReturnedCase
     /\ args.method \in {"add", "sub", "dot", "cross", "equals"}
     /\ ~InstanceOfVec2(args.arg)) => ~ret.ok

\* ------------------------------------------------------- claims, continued
\* the zero-distance branch of the InitialVFlightPath constructor was taken
ZeroDistanceCase == InitialVCase /\ args.p_start = args.p_end

\* C17: an InitialVFlightPath with p_start = p_end has getMaxTime() =
\* |v0|/a_max; for 0 <= t < t_max its position and velocity are those of
\* BreakFlightPath(p_start, a_max, v0); for t >= t_max the position is
\* exactly p_start and the velocity is zero.
C17_ZeroDistance ==
    ZeroDistanceCase =>
        /\ pc # "failed"
        /\ getMaxTime(path) = Div(Length(args.v0), args.a_max)
        /\ (Queried /\ tq >= 0 /\ tq < getMaxTime(path)) =>
               /\ pos = BreakPosition(BreakFlightPath(args.p_start, args.a_max, args.v0).v, tq)
               /\ vel = BreakVelocity(BreakFlightPath(args.p_start, args.a_max, args.v0).v, tq)
        /\ (Queried /\ tq >= getMaxTime(path)) =>
               /\ pos = Ok(args.p_start)
               /\ vel = Ok(Zero)

C17_Witness ==
    /\ ZeroDistanceCase
    /\ Queried
    /\ getMaxTime(path) > 0
    /\ tq = getMaxTime(path)
    /\ pos = Ok(args.p_start)
    /\ vel = Ok(Zero)
    /\ getEndPosition(BreakFlightPath(args.p_start, args.a_max, args.v0).v) # args.p_start

\* ------------------------------------- claims on the InitialVFlightPath phases
\* the state right after a constructor returned
Built == pc = "constructed"

\* what the constructor computes from its arguments a (p_start # p_end)
\* before it branches on the perpendicular component
IVParts(a) ==
    LET dd == Sub(a.p_end, a.p_start)
        direction == VDiv(dd, Length(dd))
        v0_parallel_len == Dot(a.v0, direction)
        v0_parallel == VMul(direction, v0_parallel_len)
        v0_perp == Sub(a.v0, v0_parallel)
        v0_cancel_path == BreakFlightPath(a.p_start, a.a_max, v0_perp).v
    IN  [distance |-> Length(dd),
         direction |-> direction,
         v0_parallel_len |-> v0_parallel_len,
         v0_parallel |-> v0_parallel,
         v0_perp |-> v0_perp,
         v0_perp_len |-> Length(v0_perp),
         v0_perp_direction |-> NormOrZero(v0_perp),
         v0_cancel_path |-> v0_cancel_path,
         time_to_cancel_v0 |-> getTimeToBreak(v0_cancel_path),
         pos_after_cancel |->
             Add(getEndPosition(v0_cancel_path),
                 VMul(v0_parallel, getTimeToBreak(v0_cancel_path)))]

\* an InitialVFlightPath with p_start # p_end whose initial velocity has a
\* component perpendicular to the axis
PerpCase ==
    InitialVCase /\ args.p_start # args.p_end /\ IVParts(args).v0_perp_len # 0

FallbackCase == PerpCase /\ path.implementation.kind = "Combined"

\* pos_after_cancel + v0_parallel*s - u_perp*(0.5*a_max*s^2)
IVAlignPosition(d, a_max, s) ==
    Sub(Add(d.pos_after_cancel, VMul(d.v0_parallel, s)),
        VMul(d.v0_perp_direction, Mul(Mul(Mul(Half, a_max), s), s)))

\* v0_parallel - u_perp*(a_max*s)
IVAlignVelocity(d, a_max, s) ==
    Sub(d.v0_parallel, VMul(d.v0_perp_direction, Mul(a_max, s)))

\* local times of the alignment phase: its start, middle and end
AlignTimes(env) == {0, Div(env.alignTime, 2 * One), env.alignTime}

\* C21: in the alignment phase of a feasible InitialVFlightPath, at local
\* time s = t - t1, the velocity is v0_parallel - u_perp*(a_max*s) and the
\* position is pos_after_cancel + v0_parallel*s - u_perp*(0.5*a_max*s^2),
\* with pos_after_cancel the position the cancellation phase ends in; the
\* final path starts from this position at s = t2.
C21_AlignmentPhase ==
    FeasibleCase =>
        LET env == path.implementation.env
            d == IVParts(args)
        IN  /\ Built =>
                  \A s \in AlignTimes(env) :
                      /\ Close(AlignPhaseVelocity(env, s),
                               IVAlignVelocity(d, args.a_max, s))
                      /\ Close(AlignPhasePosition(env, s),
                               IVAlignPosition(d, args.a_max, s))
            /\ (Queried /\ tq > env.time_to_cancel_v0
                        /\ tq <= env.time_to_cancel_v0 + env.alignTime) =>
                  /\ pos.ok
                  /\ Close(pos.v, IVAlignPosition(d, args.a_max,
                                                  tq - env.time_to_cancel_v0))
                  /\ vel.ok
                  /\ Close(vel.v, IVAlignVelocity(d, args.a_max,
                                                  tq - env.time_to_cancel_v0))

\* x1*y2 - y1*x2
Cross(u, v) == Mul(u.x, v.y) - Mul(u.y, v.x)

\* C22: in a feasible InitialVFlightPath the velocity after the alignment
\* phase has no component perpendicular to the segment from the
\* post-alignment position to p_end and points toward p_end, and the final
\* DirectedInitialVFlightPath has that velocity at its time 0.
C22_AlignedVelocity ==
    (FeasibleCase /\ Built) =>
        LET env == path.implementation.env
            vel_after_align == AlignPhaseVelocity(env, env.alignTime)
            remaining == Sub(args.p_end, AlignPhasePosition(env, env.alignTime))
        IN  /\ CloseNum(Cross(vel_after_align, NormOrZero(remaining)), 0)
            /\ Dot(vel_after_align, remaining) >= 0
            /\ Close(rocketVelocity(env.final_path, 0).v, vel_after_align)

\* (dx, dy): p_end minus the position after cancellation, in the basis
\* (direction, u_perp)
AlignEnd(a, d) ==
    Sub(changeBase(a.p_end, d.direction, d.v0_perp_direction),
        changeBase(d.pos_after_cancel, d.direction, d.v0_perp_direction))

\* (a_max*dx)^2 + 2*a_max*v0_parallel_len^2*dy
AlignInner(a_max, v0_parallel_len, end) ==
    Mul(Mul(a_max, end.x), Mul(a_max, end.x))
    + Mul(Mul(Mul(Mul(2 * One, a_max), v0_parallel_len), v0_parallel_len), end.y)

\* (-a_max*dx + sqrt(inner)) / (-a_max*v0_parallel_len)
AlignQ(a_max, v0_parallel_len, end) ==
    Div(Mul(0 - a_max, end.x) + Sqrt(AlignInner(a_max, v0_parallel_len, end)),
        Mul(0 - a_max, v0_parallel_len))

AlignInfeasible(a_max, v0_parallel_len, end) ==
    \/ v0_parallel_len = 0
    \/ AlignInner(a_max, v0_parallel_len, end) < 0
    \/ AlignQ(a_max, v0_parallel_len, end) < 0
    \/ Mul(v0_parallel_len, AlignQ(a_max, v0_parallel_len, end)) < 0

\* C23: calculateAlignmentTime reports the alignment infeasible exactly when
\* v0_parallel_len = 0, or inner = (a_max*dx)^2 + 2*a_max*v0_parallel_len^2*dy
\* is negative, or q = (-a_max*dx + sqrt(inner))/(-a_max*v0_parallel_len) is
\* negative, or v0_parallel_len*q is negative; otherwise it returns q >= 0,
\* which the constructor uses as the alignment time t2.
C23_AlignmentTime ==
    (Built /\ PerpCase) =>
        LET d == IVParts(args)
            end == AlignEnd(args, d)
            time_to_align ==
                calculateAlignmentTime(args.p_end, d.pos_after_cancel,
                                       d.v0_parallel_len, d.direction,
                                       d.v0_perp_direction, args.a_max)
        IN  IF AlignInfeasible(args.a_max, d.v0_parallel_len, end)
            THEN ~time_to_align.defined /\ FallbackCase
            ELSE LET q == AlignQ(args.a_max, d.v0_parallel_len, end)
                 IN  /\ time_to_align.defined
                     /\ time_to_align.q = q
                     /\ q >= 0
                     /\ FeasibleCase
                     /\ path.implementation.env.alignTime = q

\* a path whose root q is positive and accepted as the alignment time
C23_Witness ==
    /\ Built /\ PerpCase /\ FeasibleCase
    /\ path.implementation.env.alignTime > 0
    /\ path.implementation.env.alignTime
         = AlignQ(args.a_max, IVParts(args).v0_parallel_len,
                  AlignEnd(args, IVParts(args)))

\* the stop point S = p_start + normOrZero(v0)*(|v0|^2/(2*a_max))
StopPoint(a) ==
    Add(a.p_start, VMul(NormOrZero(a.v0), BreakStopDistance(a.v0, a.a_max)))

\* C24: when the alignment is infeasible (p_start # p_end, perpendicular
\* component non-zero) the InitialVFlightPath is BreakFlightPath(p_start,
\* a_max, v0) followed by the rest-to-rest line from its stop point S to
\* p_end: getMaxTime() is |v0|/a_max + 2*sqrt(|p_end - S|/a_max), every
\* query is the braking path's up to |v0|/a_max and the line's after it, and
\* position and velocity are continuous at the seam.
C24_Fallback ==
    FallbackCase =>
        LET full_break_path == BreakFlightPath(args.p_start, args.a_max, args.v0).v
            S == getEndPosition(full_break_path)
            t1 == Div(Length(args.v0), args.a_max)
            final_path == path.implementation.path2
        IN  /\ Built =>
                  /\ Close(S, StopPoint(args))
                  /\ getMaxTime(path)
                       = t1 + 2 * Sqrt(Div(Length(Sub(args.p_end, S)), args.a_max))
                  /\ rocketPosition(path, t1) = Ok(S)
                  /\ rocketVelocity(path, t1) = Ok(Zero)
                  /\ Close(rocketPosition(final_path, 0).v, S)
                  /\ rocketVelocity(final_path, 0) = Ok(Zero)
            /\ (Queried /\ tq >= 0 /\ tq <= t1) =>
                  /\ pos = BreakPosition(full_break_path, tq)
                  /\ vel = BreakVelocity(full_break_path, tq)
            /\ (Queried /\ tq > t1 /\ tq <= getMaxTime(path)) =>
                  /\ pos = LinePosition(LineFlightPath(S, args.p_end, args.a_max).v, tq - t1)
                  /\ vel = LineVelocity(LineFlightPath(S, args.p_end, args.a_max).v, tq - t1)

\* a fallback path asked on its line segment, before the end
C24_Witness ==
    /\ FallbackCase /\ Queried
    /\ tq > Div(Length(args.v0), args.a_max) /\ tq < getMaxTime(path)
    /\ pos.ok /\ vel.ok /\ vel.v # Zero

\* ------------------------------- claims on the DirectedInitialVFlightPath cases
\* Case A of the constructor: the implementation is the combined path
DirectedCaseA == DirectedCase /\ path.implementation.kind = "Combined"

\* C25: a DirectedInitialVFlightPath with p_start # p_end takes Case A
\* exactly when initial_v < 0 or the braking distance initial_v^2/(2*a_max)
\* exceeds the distance; it is then BreakFlightPath(p_start, a_max,
\* direction*initial_v) followed by LineFlightPath(its end position, p_end,
\* a_max): getMaxTime() is the sum of the two durations, every query is the
\* braking path's up to its duration and the line's after it, and the
\* braking path ends where, and at rest as, the line starts.
C25_DirectedCaseA ==
    DirectedCase =>
        LET break_path ==
                BreakFlightPath(args.p_start, args.a_max,
                                VMul(DirectedDirectionOf(args), args.initial_v)).v
            line == LineFlightPath(getEndPosition(break_path), args.p_end, args.a_max).v
            t1 == getMaxTime(break_path)
        IN  /\ DirectedCaseA <=>
                  \/ args.initial_v < 0
                  \/ Div(Mul(args.initial_v, args.initial_v), 2 * args.a_max)
                       > Length(Sub(args.p_end, args.p_start))
            /\ (DirectedCaseA /\ Built) =>
                  /\ getMaxTime(path) = t1 + getMaxTime(line)
                  /\ rocketPosition(path, t1) = rocketPosition(line, 0)
                  /\ rocketVelocity(path, t1) = Ok(Zero)
                  /\ rocketVelocity(line, 0) = Ok(Zero)
            /\ (DirectedCaseA /\ Queried /\ tq >= 0 /\ tq <= t1) =>
                  /\ pos = BreakPosition(break_path, tq)
                  /\ vel = BreakVelocity(break_path, tq)
            /\ (DirectedCaseA /\ Queried /\ tq > t1) =>
                  /\ pos = LinePosition(line, tq - t1)
                  /\ vel = LineVelocity(line, tq - t1)

\* Case A taken because braking overshoots, asked on its line segment
C25_Witness ==
    /\ DirectedCaseA /\ Queried /\ args.initial_v > 0
    /\ tq > getMaxTime(path.implementation.path1) /\ tq < getMaxTime(path)
    /\ pos.ok /\ vel.ok /\ vel.v # Zero

DirectedZeroCase ==
    args.ctor = "Directed" /\ pc # "new" /\ args.a_max > 0 /\ args.p_start = args.p_end

\* C26: a DirectedInitialVFlightPath with p_start = p_end behaves exactly as
\* BreakFlightPath(p_start, a_max, (initial_v, 0)): getMaxTime() is
\* |initial_v|/a_max, every query is that braking path's, and at getMaxTime()
\* it is at p_start + sign(initial_v)*(initial_v^2/(2*a_max), 0) with zero
\* velocity.
C26_DirectedZeroDistance ==
    DirectedZeroCase =>
        LET break_path ==
                BreakFlightPath(args.p_start, args.a_max, Vec(args.initial_v, 0)).v
            stop == Div(Mul(args.initial_v, args.initial_v), 2 * args.a_max)
        IN  /\ getMaxTime(path) = Div(Abs(args.initial_v), args.a_max)
            /\ Built =>
                  /\ rocketPosition(path, getMaxTime(path)).ok
                  /\ Close(rocketPosition(path, getMaxTime(path)).v,
                           Add(args.p_start, Vec(Sgn(args.initial_v) * stop, 0)))
                  /\ rocketVelocity(path, getMaxTime(path)) = Ok(Zero)
            /\ Queried =>
                  /\ pos = BreakPosition(break_path, tq)
                  /\ vel = BreakVelocity(break_path, tq)

\* such a path with a negative initial_v, asked while it brakes
C26_Witness ==
    /\ DirectedZeroCase /\ Queried /\ args.initial_v < 0
    /\ tq > 0 /\ tq < getMaxTime(path)
    /\ pos.ok /\ pos.v.x < args.p_start.x /\ vel.ok /\ vel.v.x < 0

\* C27: in the cancellation phase of a feasible InitialVFlightPath, 0 <= t <=
\* t1 = |v0_perp|/a_max, the velocity is that of BreakFlightPath(p_start,
\* a_max, v0_perp) plus v0_parallel and the position is that path's plus
\* v0_parallel*t; at t1 the perpendicular velocity is zero and the velocity
\* is v0_parallel.
C27_CancellationPhase ==
    FeasibleCase =>
        LET d == IVParts(args)
            cancel == BreakFlightPath(args.p_start, args.a_max, d.v0_perp).v
            t1 == Div(d.v0_perp_len, args.a_max)
        IN  /\ path.implementation.env.time_to_cancel_v0 = t1
            /\ Built =>
                  /\ rocketVelocity(path, t1) = Ok(d.v0_parallel)
                  /\ CloseNum(Dot(rocketVelocity(path, t1).v, d.v0_perp_direction), 0)
                  /\ rocketPosition(path, t1) = Ok(d.pos_after_cancel)
            /\ (Queried /\ tq >= 0 /\ tq <= t1) =>
                  /\ vel = Ok(Add(BreakVelocity(cancel, tq).v, d.v0_parallel))
                  /\ pos = Ok(Add(BreakPosition(cancel, tq).v, VMul(d.v0_parallel, tq)))

\* a feasible path asked inside its cancellation phase, while it drifts
C27_Witness ==
    /\ FeasibleCase /\ Queried
    /\ tq > 0 /\ tq < path.implementation.env.time_to_cancel_v0
    /\ path.implementation.env.v0_parallel # Zero
    /\ pos.ok /\ vel.ok

\* C30: an InitialVFlightPath with p_start # p_end and a non-zero
\* perpendicular component takes the alignment branch exactly when the axial
\* component v_par = v0 . direction is positive and a_max*distance >=
\* 2*v_par*|v0_perp|; with a zero or negative axial component it takes the
\* fallback.
C30_AlignmentFeasible ==
    (Built /\ PerpCase) =>
        LET d == IVParts(args)
            v_par == d.v0_parallel_len
        IN  /\ FeasibleCase <=>
                  /\ v_par > 0
                  /\ Mul(args.a_max, d.distance) >= Mul(Mul(2 * One, v_par), d.v0_perp_len)
            /\ v_par <= 0 => FallbackCase

\* ------------------------------------------------ claims on getStateAtTime
\* i = floor(t / (t_max/50))
GridIndex(p, t) == Div(t, TimeStep(p)) \div Scale

C29_EveryTimeInRange ==
    (Interpolated /\ tq >= 0 /\ tq <= getMaxTime(path)) =>
        /\ ret.ok
        /\ getMaxTime(path) = 0 =>
              ret.v = [position |-> rocketPosition(path, 0).v,
                       velocity |-> rocketVelocity(path, 0).v,
                       time |-> 0]

====
